---- MODULE Spec2Model ----
(***************************************************************************)
(* A model of the LC-3 virtual machine of src/notes/main.c: the image      *)
(* loader, the terminal-mode set-up and tear-down, the interrupt handler   *)
(* and the fetch/decode/execute loop with its memory-mapped keyboard.      *)
(*                                                                         *)
(* Words are 16-bit naturals 0..65535.  The memory array is kept sparse:   *)
(* `memory' maps the indices that hold a non-zero word to that word, and   *)
(* every other index of the (zero-initialised, static) array reads 0.      *)
(***************************************************************************)
EXTENDS Integers, Naturals, Sequences, FiniteSets, TLC

(***************************************************************************)
(* Bounds of the model.                                                    *)
(***************************************************************************)
\* the loop is followed for at most MaxSteps instruction fetches
MaxSteps == 6
\* at most MaxInput characters are pending at the keyboard at any time
MaxInput == 1

(***************************************************************************)
(* Constants of the program.                                               *)
(***************************************************************************)
UINT16_MAX == 65535
WORD == 65536
MemSize == UINT16_MAX

R_R0 == 0
R_R7 == 7
R_PC == 8
R_COND == 9
R_COUNT == 10

OP_BR == 0
OP_ADD == 1
OP_LD == 2
OP_ST == 3
OP_JSR == 4
OP_AND == 5
OP_LDR == 6
OP_STR == 7
OP_RTI == 8
OP_NOT == 9
OP_LDI == 10
OP_STI == 11
OP_JMP == 12
OP_RES == 13
OP_LEA == 14
OP_TRAP == 15

FL_POS == 1
FL_ZRO == 2
FL_NEG == 4

TRAP_GETC == 32
TRAP_OUT == 33
TRAP_PUTS == 34
TRAP_IN == 35
TRAP_PUTSP == 36
TRAP_HALT == 37

MR_KBSR == 65024
MR_KBDR == 65026

PC_START == 12288

(***************************************************************************)
(* 16-bit arithmetic, as C computes it on uint16_t operands promoted to    *)
(* int and truncated on assignment.                                        *)
(***************************************************************************)
Pow2(n) == 2 ^ n

Trunc16(x) == x % WORD

Shr(x, n) == x \div Pow2(n)

Bit(x, n) == Shr(x, n) % 2

And16(a, b) ==
  LET f[i \in 0..16] == IF i = 16 THEN 0 ELSE Bit(a, i) * Bit(b, i) * Pow2(i) + f[i + 1]
  IN  f[0]

Or16(a, b) == a + b - And16(a, b)

Not16(a) == Trunc16(UINT16_MAX - a)

Add16(a, b) == Trunc16(a + b)

\* the low 16 bits of x << n, for a 16-bit x
Shl16(x, n) == IF n >= 16 THEN 0 ELSE Trunc16(x * Pow2(n))

\* sign_extend that tests the bit above the field's sign bit
sign_extend_next_bit(x, bit_count) ==
  IF And16(Shr(x, bit_count), 1) = 1
    THEN Or16(x, Shl16(UINT16_MAX, bit_count))
    ELSE x

sign_extend(x, bit_count) ==
  IF And16(Shr(x, bit_count - 1), 1) = 1
    THEN Or16(x, Shl16(UINT16_MAX, bit_count))
    ELSE x

swap16(x) == Trunc16(Or16(Trunc16(x * 256), Shr(x, 8)))

Min(a, b) == IF a < b THEN a ELSE b

(***************************************************************************)
(* The state.                                                              *)
(***************************************************************************)
VARIABLES
  argv,          \* the image files named on the command line (argv[1..])
  bigEndian,     \* the host stores the most significant byte first
  charSigned,    \* plain char is a signed type in this build
  layout,        \* what the build placed right after the memory array
  startMode,     \* the terminal mode when the process starts
  call,          \* a call of sign_extend on its own: arguments, result, position
  pc,            \* where main is
  j,             \* main's loop index over argv
  memory,        \* uint16_t memory[UINT16_MAX], sparse
  past,          \* the word right after the array when it is not reg[R_R0]
  reg,           \* uint16_t reg[R_COUNT]
  running,       \* main's running flag
  instr,         \* the instruction fetched by the current iteration
  input,         \* the characters pending on stdin
  output,        \* the characters written to stdout
  tty,           \* the terminal's current mode
  original_tio,  \* struct termios original_tio
  handler,       \* handle_interrupt is installed for SIGINT
  status,        \* the exit status, -1 while the process runs
  steps,         \* the number of instruction fetches so far
  acc,           \* the array indices the last step read or wrote
  rd             \* the mem_read calls of the last step

build == <<argv, bigEndian, charSigned, layout, startMode, call>>
machine == <<memory, past, reg, input, output, acc, rd>>
ctl == <<pc, j, running, instr, steps>>
term == <<tty, original_tio, handler, status>>
vars == <<build, machine, ctl, term>>

(***************************************************************************)
(* The memory array.  Index MemSize (0xFFFF) is one past its last element: *)
(* the access is undefined, and what it touches depends on the build: the  *)
(* first element of reg when reg directly follows the array, some other    *)
(* storage (padding or an object the program does not read) otherwise.     *)
(***************************************************************************)
MemGet(mem, a) == IF a \in DOMAIN mem THEN mem[a] ELSE 0

MemNorm(f) == [a \in {x \in DOMAIN f : f[x] # 0} |-> f[a]]

MemSet(mem, a, v) ==
  MemNorm([x \in DOMAIN mem \cup {a} |-> IF x = a THEN v ELSE mem[x]])

\* the state an operation works on, threaded through the helpers below
Machine ==
  [mem |-> memory, past |-> past, reg |-> reg, input |-> input,
   output |-> output, acc |-> {}, rd |-> <<>>]

Cell(m, i) ==
  IF i < MemSize THEN MemGet(m.mem, i)
  ELSE IF layout = "reg" THEN m.reg[R_R0] ELSE m.past

Store(m, i, v) ==
  IF i < MemSize THEN [m EXCEPT !.mem = MemSet(@, i, v), !.acc = @ \cup {i}]
  ELSE IF layout = "reg" THEN [m EXCEPT !.reg[R_R0] = v, !.acc = @ \cup {i}]
  ELSE [m EXCEPT !.past = v, !.acc = @ \cup {i}]

check_key(m) == m.input # <<>>

mem_write(m, address, val) == Store(m, address, val)

\* mem_read without the else branch that clears the status word
mem_read_stale(m, address) ==
  LET m1 == IF address = MR_KBSR /\ check_key(m)
              THEN [Store(Store(m, MR_KBSR, Pow2(15)), MR_KBDR, Head(m.input))
                      EXCEPT !.input = Tail(m.input)]
              ELSE m
      val == Cell(m1, address)
  IN  [val |-> val,
       m   |-> [m1 EXCEPT !.acc = @ \cup {address},
                          !.rd = Append(@, [addr |-> address, val |-> val,
                                            memBefore |-> m.mem, inBefore |-> m.input,
                                            memAfter |-> m1.mem, inAfter |-> m1.input])]]

\* returns the word read and the machine after the read
mem_read(m, address) ==
  LET m1 == IF address = MR_KBSR
              THEN IF check_key(m)
                     THEN [Store(Store(m, MR_KBSR, Pow2(15)), MR_KBDR, Head(m.input))
                             EXCEPT !.input = Tail(m.input)]
                     ELSE Store(m, MR_KBSR, 0)
              ELSE m
      val == Cell(m1, address)
  IN  [val |-> val,
       m   |-> [m1 EXCEPT !.acc = @ \cup {address},
                          !.rd = Append(@, [addr |-> address, val |-> val,
                                            memBefore |-> m.mem, inBefore |-> m.input,
                                            memAfter |-> m1.mem, inAfter |-> m1.input])]]

\* update_flags with the new flag or-ed into COND instead of replacing it
update_flags_accum(r, rg) ==
  IF rg[r] = 0 THEN [rg EXCEPT ![R_COND] = Or16(@, FL_ZRO)]
  ELSE IF Shr(rg[r], 15) # 0 THEN [rg EXCEPT ![R_COND] = Or16(@, FL_NEG)]
  ELSE [rg EXCEPT ![R_COND] = Or16(@, FL_POS)]

\* update_flags with the sign tested on bit 14
update_flags_bit14(r, rg) ==
  IF rg[r] = 0 THEN [rg EXCEPT ![R_COND] = FL_ZRO]
  ELSE IF Shr(rg[r], 14) # 0 THEN [rg EXCEPT ![R_COND] = FL_NEG]
  ELSE [rg EXCEPT ![R_COND] = FL_POS]

update_flags(r, rg) ==
  IF rg[r] = 0 THEN [rg EXCEPT ![R_COND] = FL_ZRO]
  ELSE IF Shr(rg[r], 15) # 0 THEN [rg EXCEPT ![R_COND] = FL_NEG]
  ELSE [rg EXCEPT ![R_COND] = FL_POS]

(***************************************************************************)
(* The image loader.  A file is [open, bytes]: whether fopen succeeds, and *)
(* the bytes of the stream.  fread copies the stream's bytes into a        *)
(* uint16_t, so the value read depends on the host's byte order.           *)
(***************************************************************************)
HostWord(b0, b1) == IF bigEndian THEN b0 * 256 + b1 ELSE b0 + b1 * 256

\* A stream shorter than two bytes leaves origin indeterminate; the second
\* fread then finds no complete word, so nothing is stored wherever p points.
read_image_file(m, file) ==
  LET n == Len(file.bytes)
  IN  IF n < 2 THEN m
      ELSE
        LET origin == swap16(HostWord(file.bytes[1], file.bytes[2]))
            max_read == UINT16_MAX - origin
            read == Min((n - 2) \div 2, max_read)
            Loaded(i) == swap16(HostWord(file.bytes[2 * i + 3], file.bytes[2 * i + 4]))
            region == {origin + i : i \in 0..(read - 1)}
        IN  [m EXCEPT
               !.mem = MemNorm([a \in DOMAIN m.mem \cup region |->
                                  IF a \in region THEN Loaded(a - origin) ELSE m.mem[a]]),
               !.acc = @ \cup region]

\* returns the int read_image returns and the machine after the load
read_image(m, file) ==
  IF ~file.open THEN [ret |-> 0, m |-> m]
  ELSE [ret |-> 1, m |-> read_image_file(m, file)]

(***************************************************************************)
(* main, up to the execution loop.                                         *)
(***************************************************************************)
Commit(m) ==
  /\ memory' = m.mem
  /\ past' = m.past
  /\ reg' = m.reg
  /\ input' = m.input
  /\ output' = m.output
  /\ acc' = m.acc
  /\ rd' = m.rd

Quiet == acc' = {} /\ rd' = <<>>

Exit(code) == pc' = "exited" /\ status' = code

\* argc < 2: usage, exit(2)
CheckArgs ==
  /\ pc = "args"
  /\ IF Len(argv) < 1
       THEN Exit(2) /\ j' = j
       ELSE pc' = "load" /\ j' = 1 /\ status' = status
  /\ Quiet
  /\ UNCHANGED <<build, memory, past, reg, input, output, running, instr, steps,
                 tty, original_tio, handler>>

\* the loop over argv running from the last image to the first
LoadImage_reversed ==
  /\ pc = "load"
  /\ LET r == read_image(Machine, argv[Len(argv) + 1 - j])
     IN  IF r.ret = 0
           THEN /\ Exit(1)
                /\ j' = j
                /\ Quiet
                /\ UNCHANGED <<memory, past, reg, input, output>>
           ELSE /\ Commit(r.m)
                /\ j' = j + 1
                /\ pc' = IF j + 1 > Len(argv) THEN "signal" ELSE "load"
                /\ status' = status
  /\ UNCHANGED <<build, running, instr, steps, tty, original_tio, handler>>

\* one iteration of the loop over argv, and the loop's exit after the last one
LoadImage ==
  /\ pc = "load"
  /\ LET r == read_image(Machine, argv[j])
     IN  IF r.ret = 0
           THEN /\ Exit(1)
                /\ j' = j
                /\ Quiet
                /\ UNCHANGED <<memory, past, reg, input, output>>
           ELSE /\ Commit(r.m)
                /\ j' = j + 1
                /\ pc' = IF j + 1 > Len(argv) THEN "signal" ELSE "load"
                /\ status' = status
  /\ UNCHANGED <<build, running, instr, steps, tty, original_tio, handler>>

\* signal(SIGINT, handle_interrupt)
InstallHandler ==
  /\ pc = "signal"
  /\ handler' = TRUE
  /\ pc' = "tcget"
  /\ Quiet
  /\ UNCHANGED <<build, memory, past, reg, input, output, j, running, instr, steps,
                 tty, original_tio, status>>

\* disable_input_buffering, first call: tcgetattr(STDIN_FILENO, &original_tio)
TcGetAttr ==
  /\ pc = "tcget"
  /\ original_tio' = tty
  /\ pc' = "tcset"
  /\ Quiet
  /\ UNCHANGED <<build, memory, past, reg, input, output, j, running, instr, steps,
                 tty, handler, status>>

\* disable_input_buffering, second call: tcsetattr with ICANON and ECHO cleared
TcSetAttr ==
  /\ pc = "tcset"
  /\ tty' = original_tio \ {"ICANON", "ECHO"}
  /\ pc' = "init"
  /\ Quiet
  /\ UNCHANGED <<build, memory, past, reg, input, output, j, running, instr, steps,
                 original_tio, handler, status>>

\* reg[R_COND] = FL_ZRO; reg[R_PC] = PC_START; running = 1
InitRegs ==
  /\ pc = "init"
  /\ reg' = [reg EXCEPT ![R_COND] = FL_ZRO, ![R_PC] = PC_START]
  /\ running' = TRUE
  /\ pc' = "fetch"
  /\ Quiet
  /\ UNCHANGED <<build, memory, past, input, output, j, instr, steps, term>>

restore_input_buffering == tty' = original_tio

\* a SIGINT delivered while the handler is installed and the process runs
handle_interrupt ==
  /\ handler
  /\ pc \in {"tcget", "tcset", "init", "fetch", "exec"}
  /\ restore_input_buffering
  /\ output' = Append(output, 10)
  /\ Exit(254)
  /\ Quiet
  /\ UNCHANGED <<build, memory, past, reg, input, j, running, instr, steps,
                 original_tio, handler>>

(***************************************************************************)
(* The execution loop: the test of running, the fetch, and one action per  *)
(* case of the switch.                                                     *)
(***************************************************************************)
Fetch ==
  /\ pc = "fetch"
  /\ running
  /\ steps < MaxSteps
  /\ LET r == mem_read(Machine, reg[R_PC])
     IN  /\ instr' = r.val
         /\ Commit([r.m EXCEPT !.reg[R_PC] = Add16(@, 1)])
  /\ steps' = steps + 1
  /\ pc' = "exec"
  /\ UNCHANGED <<build, j, running, term>>

\* while (running) fails: restore_input_buffering() and return from main
LoopExit ==
  /\ pc = "fetch"
  /\ ~running
  /\ restore_input_buffering
  /\ Exit(0)
  /\ Quiet
  /\ UNCHANGED <<build, memory, past, reg, input, output, j, running, instr, steps,
                 original_tio, handler>>

opcode == Shr(instr, 12)
F_DR == And16(Shr(instr, 9), 7)
F_SR1 == And16(Shr(instr, 6), 7)
F_SR2 == And16(instr, 7)
F_imm == And16(Shr(instr, 5), 1)

\* the break at the end of a case: back to the loop's test
Break(m) ==
  /\ Commit(m)
  /\ pc' = "fetch"
  /\ UNCHANGED <<build, j, running, instr, steps, term>>

Exec(op) == pc = "exec" /\ opcode = op

\* ADD that takes imm5 without extending its sign
ExecADD_unsigned_imm ==
  /\ Exec(OP_ADD)
  /\ LET m == Machine
         v == IF F_imm # 0
                THEN Add16(m.reg[F_SR1], And16(instr, 31))
                ELSE Add16(m.reg[F_SR1], m.reg[F_SR2])
     IN  Break([m EXCEPT !.reg = update_flags(F_DR, [@ EXCEPT ![F_DR] = v])])

ExecADD ==
  /\ Exec(OP_ADD)
  /\ LET m == Machine
         v == IF F_imm # 0
                THEN Add16(m.reg[F_SR1], sign_extend(And16(instr, 31), 5))
                ELSE Add16(m.reg[F_SR1], m.reg[F_SR2])
     IN  Break([m EXCEPT !.reg = update_flags(F_DR, [@ EXCEPT ![F_DR] = v])])

ExecAND ==
  /\ Exec(OP_AND)
  /\ LET m == Machine
         v == IF F_imm # 0
                THEN And16(m.reg[F_SR1], sign_extend(And16(instr, 31), 5))
                ELSE And16(m.reg[F_SR1], m.reg[F_SR2])
     IN  Break([m EXCEPT !.reg = update_flags(F_DR, [@ EXCEPT ![F_DR] = v])])

ExecNOT ==
  /\ Exec(OP_NOT)
  /\ LET m == Machine
     IN  Break([m EXCEPT !.reg = update_flags(F_DR, [@ EXCEPT ![F_DR] = Not16(m.reg[F_SR1])])])

\* BR that compares the condition bits with COND for equality
ExecBR_equal ==
  /\ Exec(OP_BR)
  /\ LET m == Machine
         pc_offset == sign_extend(And16(instr, 511), 9)
         cond_flag == And16(Shr(instr, 9), 7)
     IN  IF cond_flag = m.reg[R_COND]
           THEN Break([m EXCEPT !.reg[R_PC] = Add16(@, pc_offset)])
           ELSE Break(m)

ExecBR ==
  /\ Exec(OP_BR)
  /\ LET m == Machine
         pc_offset == sign_extend(And16(instr, 511), 9)
         cond_flag == And16(Shr(instr, 9), 7)
     IN  IF And16(cond_flag, m.reg[R_COND]) # 0
           THEN Break([m EXCEPT !.reg[R_PC] = Add16(@, pc_offset)])
           ELSE Break(m)

ExecJMP ==
  /\ Exec(OP_JMP)
  /\ LET m == Machine
     IN  Break([m EXCEPT !.reg[R_PC] = m.reg[F_SR1]])

\* JSR that saves the return address after the jump
ExecJSR_late_link ==
  /\ Exec(OP_JSR)
  /\ LET m == Machine
         long_flag == And16(Shr(instr, 11), 1)
         m1 == IF long_flag # 0
                 THEN [m EXCEPT !.reg[R_PC] = Add16(@, sign_extend(And16(instr, 2047), 11))]
                 ELSE [m EXCEPT !.reg[R_PC] = m.reg[F_SR1]]
     IN  Break([m1 EXCEPT !.reg[R_R7] = m1.reg[R_PC]])

ExecJSR ==
  /\ Exec(OP_JSR)
  /\ LET m == Machine
         long_flag == And16(Shr(instr, 11), 1)
         m1 == [m EXCEPT !.reg[R_R7] = m.reg[R_PC]]
     IN  IF long_flag # 0
           THEN Break([m1 EXCEPT !.reg[R_PC] = Add16(@, sign_extend(And16(instr, 2047), 11))])
           ELSE Break([m1 EXCEPT !.reg[R_PC] = m1.reg[F_SR1]])

ExecLD ==
  /\ Exec(OP_LD)
  /\ LET m == Machine
         pc_offset == sign_extend(And16(instr, 511), 9)
         r == mem_read(m, Add16(m.reg[R_PC], pc_offset))
     IN  Break([r.m EXCEPT !.reg = update_flags(F_DR, [@ EXCEPT ![F_DR] = r.val])])

ExecLDI ==
  /\ Exec(OP_LDI)
  /\ LET m == Machine
         pc_offset == sign_extend(And16(instr, 511), 9)
         p == mem_read(m, Add16(m.reg[R_PC], pc_offset))
         r == mem_read(p.m, p.val)
     IN  Break([r.m EXCEPT !.reg = update_flags(F_DR, [@ EXCEPT ![F_DR] = r.val])])

ExecLDR ==
  /\ Exec(OP_LDR)
  /\ LET m == Machine
         offset == sign_extend(And16(instr, 63), 6)
         r == mem_read(m, Add16(m.reg[F_SR1], offset))
     IN  Break([r.m EXCEPT !.reg = update_flags(F_DR, [@ EXCEPT ![F_DR] = r.val])])

ExecLEA ==
  /\ Exec(OP_LEA)
  /\ LET m == Machine
         pc_offset == sign_extend(And16(instr, 511), 9)
     IN  Break([m EXCEPT !.reg = update_flags(F_DR,
                                   [@ EXCEPT ![F_DR] = Add16(m.reg[R_PC], pc_offset)])])

ExecST ==
  /\ Exec(OP_ST)
  /\ LET m == Machine
         pc_offset == sign_extend(And16(instr, 511), 9)
     IN  Break(mem_write(m, Add16(m.reg[R_PC], pc_offset), m.reg[F_DR]))

ExecSTI ==
  /\ Exec(OP_STI)
  /\ LET m == Machine
         pc_offset == sign_extend(And16(instr, 511), 9)
         p == mem_read(m, Add16(m.reg[R_PC], pc_offset))
     IN  Break(mem_write(p.m, p.val, p.m.reg[F_DR]))

ExecSTR ==
  /\ Exec(OP_STR)
  /\ LET m == Machine
         offset == sign_extend(And16(instr, 63), 6)
     IN  Break(mem_write(m, Add16(m.reg[F_SR1], offset), m.reg[F_DR]))

\* the reserved opcodes treated as a no-op
ExecAbort_noop ==
  /\ pc = "exec"
  /\ opcode \in {OP_RES, OP_RTI}
  /\ Break(Machine)

\* case OP_RES, case OP_RTI, default: abort()
ExecAbort ==
  /\ pc = "exec"
  /\ opcode \in {OP_RES, OP_RTI}
  /\ pc' = "aborted"
  /\ status' = 134
  /\ Quiet
  /\ UNCHANGED <<build, memory, past, reg, input, output, j, running, instr, steps,
                 tty, original_tio, handler>>

(***************************************************************************)
(* The trap routines: the inner switch on instr & 0xFF.                    *)
(***************************************************************************)
Trap(vector) == Exec(OP_TRAP) /\ And16(instr, 255) = vector

Str_HALT == <<72, 65, 76, 84, 10>>
Str_Prompt == <<69, 110, 116, 101, 114, 32, 97, 32, 99, 104, 97, 114, 97, 116, 101,
                114, 58, 32>>

\* (char) of a value read by getchar, converted back to uint16_t
CharToWord(c) == IF charSigned /\ c >= 128 THEN Trunc16(WORD + c - 256) ELSE c

\* getchar blocks until a character is pending
TrapGETC ==
  /\ Trap(TRAP_GETC)
  /\ input # <<>>
  /\ LET m == Machine
     IN  Break([m EXCEPT !.input = Tail(@),
                         !.reg = update_flags(R_R0, [@ EXCEPT ![R_R0] = Head(m.input)])])

TrapOUT ==
  /\ Trap(TRAP_OUT)
  /\ LET m == Machine
     IN  Break([m EXCEPT !.output = Append(@, And16(m.reg[R_R0], 255))])

\* The words c points at, from index i on, up to the first zero word.  The
\* pointer does not wrap: past index MemSize it leaves every object the model
\* knows (wild), and what it reads there is not determined by the program.
RECURSIVE Scan(_, _)
Scan(m, i) ==
  IF i > MemSize THEN [words |-> <<>>, seen |-> {i}, wild |-> TRUE]
  ELSE IF Cell(m, i) = 0 THEN [words |-> <<>>, seen |-> {i}, wild |-> FALSE]
  ELSE LET rest == Scan(m, i + 1)
       IN  [words |-> <<Cell(m, i)>> \o rest.words, seen |-> {i} \cup rest.seen,
            wild |-> rest.wild]

RECURSIVE PutsChars(_)
PutsChars(ws) ==
  IF ws = <<>> THEN <<>> ELSE <<And16(Head(ws), 255)>> \o PutsChars(Tail(ws))

RECURSIVE PutspChars(_)
PutspChars(ws) ==
  IF ws = <<>> THEN <<>>
  ELSE LET char1 == And16(Head(ws), 255)
           char2 == Shr(Head(ws), 8)
       IN  (IF char2 # 0 THEN <<char1, char2>> ELSE <<char1>>) \o PutspChars(Tail(ws))

\* a scan that ran past the array either finds a zero word there or faults
Crash ==
  /\ pc' = "crashed"
  /\ status' = 139
  /\ UNCHANGED <<build, j, running, instr, steps, tty, original_tio, handler>>

TrapPUTS ==
  /\ Trap(TRAP_PUTS)
  /\ LET m == Machine
         s == Scan(m, m.reg[R_R0])
         m1 == [m EXCEPT !.output = @ \o PutsChars(s.words), !.acc = s.seen]
     IN  \/ Break(m1)
         \/ s.wild /\ Commit(m1) /\ Crash

TrapIN ==
  /\ Trap(TRAP_IN)
  /\ input # <<>>
  /\ LET m == Machine
         c == Head(m.input)
     IN  Break([m EXCEPT !.input = Tail(@),
                         !.output = @ \o Str_Prompt \o <<c>>,
                         !.reg = update_flags(R_R0, [@ EXCEPT ![R_R0] = CharToWord(c)])])

TrapPUTSP ==
  /\ Trap(TRAP_PUTSP)
  /\ LET m == Machine
         s == Scan(m, m.reg[R_R0])
         m1 == [m EXCEPT !.output = @ \o PutspChars(s.words), !.acc = s.seen]
     IN  \/ Break(m1)
         \/ s.wild /\ Commit(m1) /\ Crash

\* TRAP_HALT without running = 0
TrapHALT_keeps_running ==
  /\ Trap(TRAP_HALT)
  /\ running' = running
  /\ Commit([Machine EXCEPT !.output = @ \o Str_HALT])
  /\ pc' = "fetch"
  /\ UNCHANGED <<build, j, instr, steps, term>>

TrapHALT ==
  /\ Trap(TRAP_HALT)
  /\ running' = FALSE
  /\ Commit([Machine EXCEPT !.output = @ \o Str_HALT])
  /\ pc' = "fetch"
  /\ UNCHANGED <<build, j, instr, steps, term>>

\* an unknown vector treated as a call: the return address goes to R7
TrapOther_links ==
  /\ Exec(OP_TRAP)
  /\ And16(instr, 255) \notin TRAP_GETC..TRAP_HALT
  /\ Break([Machine EXCEPT !.reg[R_R7] = Machine.reg[R_PC]])

\* the inner switch has no default: any other vector falls through to the break
TrapOther ==
  /\ Exec(OP_TRAP)
  /\ And16(instr, 255) \notin TRAP_GETC..TRAP_HALT
  /\ Break(Machine)

(***************************************************************************)
(* The environment: the keyboard, and the command lines the model runs.    *)
(***************************************************************************)
\* the characters typed: NUL, 'A', and one with the top bit set
Chars == {0, 65, 200}

\* a character becomes pending on stdin; nothing reads stdin before the loop
KeyArrive ==
  /\ pc \in {"fetch", "exec"}
  /\ Len(input) < MaxInput
  /\ \E c \in Chars : input' = Append(input, c)
  /\ Quiet
  /\ UNCHANGED <<build, memory, past, reg, output, ctl, term>>

\* instruction words, by the field layout the switch decodes
Off(n, bits) == (n + Pow2(bits)) % Pow2(bits)
I_ADD(dr, sr1, sr2) == OP_ADD * 4096 + dr * 512 + sr1 * 64 + sr2
I_ADDi(dr, sr1, imm5) == OP_ADD * 4096 + dr * 512 + sr1 * 64 + 32 + Off(imm5, 5)
I_AND(dr, sr1, sr2) == OP_AND * 4096 + dr * 512 + sr1 * 64 + sr2
I_ANDi(dr, sr1, imm5) == OP_AND * 4096 + dr * 512 + sr1 * 64 + 32 + Off(imm5, 5)
I_NOT(dr, sr) == OP_NOT * 4096 + dr * 512 + sr * 64 + 63
I_BR(nzp, off9) == OP_BR * 4096 + nzp * 512 + Off(off9, 9)
I_JMP(base) == OP_JMP * 4096 + base * 64
I_JSR(off11) == OP_JSR * 4096 + 2048 + Off(off11, 11)
I_JSRR(base) == OP_JSR * 4096 + base * 64
I_LD(dr, off9) == OP_LD * 4096 + dr * 512 + Off(off9, 9)
I_LDI(dr, off9) == OP_LDI * 4096 + dr * 512 + Off(off9, 9)
I_LDR(dr, base, off6) == OP_LDR * 4096 + dr * 512 + base * 64 + Off(off6, 6)
I_LEA(dr, off9) == OP_LEA * 4096 + dr * 512 + Off(off9, 9)
I_ST(sr, off9) == OP_ST * 4096 + sr * 512 + Off(off9, 9)
I_STI(sr, off9) == OP_STI * 4096 + sr * 512 + Off(off9, 9)
I_STR(sr, base, off6) == OP_STR * 4096 + sr * 512 + base * 64 + Off(off6, 6)
I_TRAP(vector) == OP_TRAP * 4096 + vector
I_RTI == OP_RTI * 4096
I_RES == OP_RES * 4096

\* an image file: the origin and the words, most significant byte first
RECURSIVE BEBytes(_)
BEBytes(ws) ==
  IF ws = <<>> THEN <<>>
  ELSE <<Shr(Head(ws), 8), Head(ws) % 256>> \o BEBytes(Tail(ws))

File(origin, words) == [open |-> TRUE, bytes |-> BEBytes(<<origin>> \o words)]

NoFile == [open |-> FALSE, bytes |-> <<>>]
EmptyFile == [open |-> TRUE, bytes |-> <<>>]
OneByteFile == [open |-> TRUE, bytes |-> <<48>>]

\* a program at PC_START: two instructions, HALT, and three data words
Data == <<MR_KBSR, UINT16_MAX, 66>>
Prog(a, b) == File(PC_START, <<a, b, I_TRAP(TRAP_HALT)>> \o Data)

Regs == 0..7

SetupPool ==
  {I_ADDi(1, 1, 5), I_NOT(1, 1), I_LD(1, 2), I_LEA(0, 2), I_NOT(0, 0), I_LEA(7, -1),
   I_ANDi(2, 2, 0)}

FlagPool ==
  UNION {{I_ADDi(dr, 1, -1), I_ADDi(dr, 1, 1), I_ADD(dr, 1, 1), I_ADD(dr, dr, dr),
          I_ANDi(dr, 1, -1), I_ANDi(dr, 1, 0), I_AND(dr, 1, dr), I_NOT(dr, 1),
          I_NOT(dr, dr), I_LD(dr, 1), I_LD(dr, 3), I_LDI(dr, 1), I_LDI(dr, 2),
          I_LDR(dr, 1, 0), I_LDR(dr, dr, 1), I_LEA(dr, 0), I_LEA(dr, -3)} : dr \in Regs}

OtherPool ==
  {I_ST(1, 3), I_STI(1, 1), I_STI(1, 2), I_STR(0, 1, 0), I_STR(1, 1, -1),
   I_BR(0, 1), I_BR(7, 1), I_BR(2, 1), I_BR(4, 1), I_BR(1, -2), I_BR(5, 5),
   I_BR(2, 5), I_BR(6, -256), I_BR(3, 255),
   I_JMP(1), I_JMP(7), I_JSR(-2), I_JSR(1), I_JSR(-1024), I_JSR(1023),
   I_JSRR(1), I_JSRR(7), I_JSRR(0),
   I_TRAP(TRAP_GETC), I_TRAP(TRAP_OUT), I_TRAP(TRAP_PUTS), I_TRAP(TRAP_IN),
   I_TRAP(TRAP_PUTSP), I_TRAP(TRAP_HALT), I_TRAP(0), I_TRAP(31), I_TRAP(38),
   I_TRAP(255),
   I_RTI, I_RES, I_RES + 7}

Programs == {Prog(a, b) : a \in SetupPool, b \in FlagPool \cup OtherPool}

\* images that end at, or reach past, the top of memory, and one at address 0
EdgeImages ==
  {File(65534, <<4660, 43981>>), File(65535, <<4660>>), File(65533, <<1, 2, 3>>),
   File(0, <<4660, 43981>>), File(65024, <<61477>>)}

\* a program that jumps to `target', and code to load there
JumpTo(target) == File(PC_START, <<I_LD(1, 1), I_JMP(1), target>>)

\* command lines without a program at PC_START of their own making
PlainLines ==
  {<<>>, <<NoFile>>, <<EmptyFile>>, <<OneByteFile>>}
  \cup {<<f>> : f \in EdgeImages}
  \cup {<<Prog(I_ADDi(1, 1, 5), I_ADDi(0, 1, -1)), f>> :
          f \in {NoFile, EmptyFile, OneByteFile, File(12289, <<I_NOT(0, 1), 0, 7>>)}}
  \cup {<<JumpTo(65022), File(65022, <<y, I_TRAP(TRAP_HALT)>>)>> :
          y \in {I_LD(2, 1), I_STI(0, 1), I_LDI(2, 1), I_LEA(2, 1)}}
  \cup {<<JumpTo(65023), File(65023, <<I_ADDi(0, 0, 1)>>)>>}
  \cup {<<Prog(I_LD(1, 2), I_LDR(2, 1, 0)), File(MR_KBSR, <<I_TRAP(TRAP_HALT)>>)>>}
  \cup {<<JumpTo(65534), File(65534, <<i>>)>> : i \in {I_JSR(5), I_BR(7, 3)}}
  \cup {<<File(PC_START, <<I_NOT(0, 0), I_STR(0, 0, 0), I_TRAP(TRAP_PUTS),
                           I_TRAP(TRAP_HALT)>>)>>}
  \cup {<<File(PC_START, <<I_ADDi(1, 1, 10), I_ADDi(2, 2, 6), I_AND(0, 1, 2),
                           I_TRAP(TRAP_HALT)>>)>>}

CommandLines == PlainLines \cup {<<f>> : f \in Programs}

\* the terminal as a shell leaves it, and one already without ICANON and ECHO
Cooked == {"ICANON", "ECHO", "ISIG", "CREAD"}
StartModes == {Cooked, {"ISIG", "CREAD"}}

\* every command line on every build from a cooked terminal; the plain ones
\* from every start mode as well
Configs ==
  [argv : CommandLines, bigEndian : BOOLEAN, charSigned : BOOLEAN,
   layout : {"pad", "reg"}, startMode : {Cooked}]
  \cup [argv : PlainLines, bigEndian : BOOLEAN, charSigned : BOOLEAN,
        layout : {"pad", "reg"}, startMode : StartModes]

Init ==
  /\ \E c \in Configs :
       /\ argv = c.argv
       /\ bigEndian = c.bigEndian
       /\ charSigned = c.charSigned
       /\ layout = c.layout
       /\ startMode = c.startMode
  /\ call = [x |-> 0, bit_count |-> 1, ret |-> 0, at |-> "none"]
  /\ pc = "args"
  /\ j = 0
  /\ memory = MemNorm([a \in {} |-> 0])
  /\ past = 0
  /\ reg = [r \in 0..(R_COUNT - 1) |-> 0]
  /\ running = FALSE
  /\ instr = 0
  /\ input = <<>>
  /\ output = <<>>
  /\ tty = startMode
  /\ original_tio = {}
  /\ handler = FALSE
  /\ status = -1
  /\ steps = 0
  /\ acc = {}
  /\ rd = <<>>

Next ==
  \/ CheckArgs
  \/ LoadImage
  \/ InstallHandler
  \/ TcGetAttr
  \/ TcSetAttr
  \/ InitRegs
  \/ handle_interrupt
  \/ Fetch
  \/ LoopExit
  \/ ExecADD
  \/ ExecAND
  \/ ExecNOT
  \/ ExecBR
  \/ ExecJMP
  \/ ExecJSR
  \/ ExecLD
  \/ ExecLDI
  \/ ExecLDR
  \/ ExecLEA
  \/ ExecST
  \/ ExecSTI
  \/ ExecSTR
  \/ ExecAbort
  \/ TrapGETC
  \/ TrapOUT
  \/ TrapPUTS
  \/ TrapIN
  \/ TrapPUTSP
  \/ TrapHALT
  \/ TrapOther
  \/ KeyArrive

Spec == Init /\ [][Next]_vars

(***************************************************************************)
(* The properties.                                                         *)
(***************************************************************************)
\* the word the machine holds at address a after the step
WordAfter(a) ==
  IF a < MemSize THEN MemGet(memory', a)
  ELSE IF layout = "reg" THEN reg'[R_R0] ELSE past'

\* an image file read as its format defines it: most significant byte first
BEWord(b0, b1) == b0 * 256 + b1
ImgOrigin(f) == BEWord(f.bytes[1], f.bytes[2])
ImgCount(f) == (Len(f.bytes) - 2) \div 2
ImgWord(f, i) == BEWord(f.bytes[2 * i + 3], f.bytes[2 * i + 4])
Readable(f) == f.open /\ Len(f.bytes) >= 2

\* a step of main's loop over argv that loads argv[j] and goes on
Loads == pc = "load" /\ pc' \in {"load", "signal"} /\ j' = j + 1

IsHALT == opcode = OP_TRAP /\ And16(instr, 255) = TRAP_HALT
Stopped == (pc = "fetch" /\ ~running) \/ (pc = "exited" /\ steps > 0)

\* C1: executing TRAP HALT takes running from true to false, and from then on
\* no instruction is fetched, PC is not incremented, and no register or memory
\* word changes.
C1_HaltStops ==
  [][/\ (pc = "exec" /\ IsHALT /\ pc' = "fetch") => (running /\ ~running')
     /\ Stopped => (steps' = steps /\ reg' = reg /\ memory' = memory /\ past' = past
                    /\ instr' = instr /\ running' = running
                    /\ pc' \in {"fetch", "exited"})]_vars

C1_Witness == pc = "exited" /\ status = 0 /\ IsHALT /\ ~running /\ steps >= 3

\* C2: from the start of the execution loop onward COND is exactly one of
\* FL_POS, FL_ZRO, FL_NEG, and it is FL_ZRO when the loop starts.
InLoop == pc \in {"fetch", "exec"} \/ steps > 0

C2_OneFlag ==
  /\ InLoop => reg[R_COND] \in {FL_POS, FL_ZRO, FL_NEG}
  /\ (pc = "fetch" /\ steps = 0) => reg[R_COND] = FL_ZRO

C2_Witness == pc = "fetch" /\ steps >= 2 /\ reg[R_COND] = FL_NEG

\* C3: after ADD, AND, NOT, LD, LDI, LDR, LEA, TRAP GETC and TRAP IN, COND is
\* the flag of the value the destination register now holds.
Executed == pc = "fetch" /\ steps > 0

FlagDest ==
  IF opcode \in {OP_ADD, OP_AND, OP_NOT, OP_LD, OP_LDI, OP_LDR, OP_LEA} THEN F_DR
  ELSE IF opcode = OP_TRAP /\ And16(instr, 255) \in {TRAP_GETC, TRAP_IN} THEN R_R0
  ELSE -1

FlagOf(v) == IF v = 0 THEN FL_ZRO ELSE IF v >= 32768 THEN FL_NEG ELSE FL_POS

C3_FlagMatchesDest ==
  (Executed /\ FlagDest # -1) => reg[R_COND] = FlagOf(reg[FlagDest])

C3_Witness ==
  /\ Executed
  /\ opcode = OP_ADD
  /\ F_DR = 7
  /\ F_SR1 = 7
  /\ reg[7] >= 16384
  /\ reg[R_COND] = FL_POS

\* C4: every access of memory is inside the array, for every address up to
\* 0xFFFF.
C4_AccessInsideArray == \A i \in acc : i < MemSize

\* C5: an instruction with opcode RTI or RES aborts the process: it changes
\* no register R0..R7, COND or memory word, nothing is fetched after it, and
\* the loop never continues past it.
Reserved == pc = "exec" /\ opcode \in {OP_RTI, OP_RES}

C5_ReservedAborts ==
  [][/\ Reserved =>
          /\ pc' \in {"exec", "aborted", "exited"}
          /\ pc' = "exited" => status' = 254
          /\ \A r \in Regs \cup {R_COND} : reg'[r] = reg[r]
          /\ memory' = memory /\ past' = past /\ steps' = steps
     /\ pc = "aborted" => (pc' = "aborted" /\ steps' = steps /\ reg' = reg
                           /\ memory' = memory)]_vars

C5_Witness == pc = "aborted" /\ opcode = OP_RTI /\ steps >= 2 /\ reg[1] # 0

\* C6: a mem_read of the keyboard status address returns 0 when no character
\* is pending, whatever the word held; with a character pending it returns a
\* word with bit 15 set and the keyboard data word holds that character.  A
\* mem_read of another address consumes no input and changes no memory word.
C6_KeyboardStatus ==
  \A k \in 1..Len(rd) :
    LET e == rd[k]
    IN  /\ (e.addr = MR_KBSR /\ e.inBefore = <<>>) => e.val = 0
        /\ (e.addr = MR_KBSR /\ e.inBefore # <<>>) =>
             /\ e.val >= 32768
             /\ MemGet(e.memAfter, MR_KBSR) = e.val
             /\ MemGet(e.memAfter, MR_KBDR) = Head(e.inBefore)
             /\ e.inAfter = Tail(e.inBefore)
        /\ e.addr # MR_KBSR => (e.inAfter = e.inBefore /\ e.memAfter = e.memBefore)

C6_Witness ==
  \E k \in 1..Len(rd) :
    /\ rd[k].addr = MR_KBSR
    /\ rd[k].inBefore = <<>>
    /\ MemGet(rd[k].memBefore, MR_KBSR) # 0
    /\ rd[k].val = 0

\* C7: loading an image of origin O and N words that fit below the top of
\* memory leaves the i-th word, decoded most significant byte first, at
\* address O+i, on any host, and changes no other address.
C7_LoadRoundTrip ==
  [][(Loads /\ Readable(argv[j]) /\ ImgOrigin(argv[j]) + ImgCount(argv[j]) <= WORD) =>
       LET f == argv[j]
           region == {ImgOrigin(f) + i : i \in 0..(ImgCount(f) - 1)}
       IN  /\ \A i \in 0..(ImgCount(f) - 1) : WordAfter(ImgOrigin(f) + i) = ImgWord(f, i)
           /\ \A a \in (DOMAIN memory \cup DOMAIN memory') \ region :
                MemGet(memory', a) = MemGet(memory, a)]_vars

\* C8: the loader stores exactly min(N, 65536 - O) words, at O, O+1, ..., and
\* nothing outside the array (stated for the hosts that decode the origin
\* as the format defines it).
C8_LoadCount ==
  [][(Loads /\ Readable(argv[j]) /\ ~bigEndian) =>
       LET f == argv[j]
           count == Min(ImgCount(f), WORD - ImgOrigin(f))
       IN  /\ acc' = {ImgOrigin(f) + i : i \in 0..(count - 1)}
           /\ \A i \in acc' : i < MemSize]_vars

\* C9: with an image that cannot be opened or read on the command line, the
\* process exits with status 1 before execution begins: nothing is fetched,
\* PC and COND are not set up, the terminal mode is not changed.
C9_BadImageStops ==
  (\E k \in 1..Len(argv) : ~Readable(argv[k])) =>
    /\ pc \in {"args", "load", "exited"}
    /\ pc = "exited" => status = 1
    /\ steps = 0 /\ reg[R_PC] = 0 /\ reg[R_COND] = 0 /\ tty = startMode

\* C10: after a normal exit and after an interrupt the terminal is in the
\* mode it had at process start, and the interrupt's exit status is none of
\* 0, 1, 2.
C10_TerminalRestored ==
  (handler /\ pc = "exited") => (tty = startMode /\ status \in {0, 254})


\* what the load of file f alone stores: the indices written (acc) and the
\* words (mem), as the loader of this host decodes the stream
Stored(f) ==
  read_image_file([mem |-> MemNorm([a \in {} |-> 0]), past |-> 0,
                   reg |-> [r \in 0..(R_COUNT - 1) |-> 0], input |-> <<>>,
                   output |-> <<>>, acc |-> {}, rd |-> <<>>], f)

\* the last of the loads st (one per image, in command-line order) that
\* stores a word at a, or 0
LastOver(st, a) ==
  LET ks == {k \in DOMAIN st : a \in st[k].acc}
  IN  IF ks = {} THEN 0 ELSE CHOOSE k \in ks : \A l \in ks : l <= k

\* the execution loop is about to fetch its first instruction
AtStart == pc = "fetch" /\ steps = 0

\* C11: the images are loaded in command-line order and all before the first
\* fetch; when execution starts every address holds the word of the last
\* image that covers it, words of earlier images elsewhere are kept, and on a
\* host that decodes the format as defined those are the images' own words.
C11_LoadOrder ==
  /\ (pc \in {"fetch", "exec"} \/ steps > 0) => j = Len(argv) + 1
  /\ AtStart =>
       LET st == [k \in 1..Len(argv) |-> Stored(argv[k])]
           last == [a \in DOMAIN memory \cup UNION {st[k].acc : k \in DOMAIN st} |->
                      LastOver(st, a)]
       IN  /\ \A a \in DOMAIN last :
                MemGet(memory, a) =
                  IF last[a] = 0 THEN 0 ELSE MemGet(st[last[a]].mem, a)
           /\ ~bigEndian =>
                \A k \in DOMAIN st :
                  \A i \in 0..(ImgCount(argv[k]) - 1) :
                    LET a == ImgOrigin(argv[k]) + i
                    IN  (a < MemSize /\ last[a] = k) => MemGet(memory, a) = ImgWord(argv[k], i)

C11_Witness ==
  /\ AtStart
  /\ ~bigEndian
  /\ Len(argv) = 2
  /\ MemGet(memory, PC_START) = I_ADDi(1, 1, 5)
  /\ MemGet(memory, PC_START + 1) = I_NOT(0, 1)
  /\ MemGet(memory, PC_START + 2) = 0
  /\ MemGet(memory, PC_START + 4) = UINT16_MAX


\* the value of the low `bits' bits of w as a signed offset, modulo 65536
Signed(w, bits) ==
  LET low == w % Pow2(bits)
  IN  IF low >= Pow2(bits - 1) THEN low + WORD - Pow2(bits) ELSE low

\* the step is the execution of the fetched instruction, of opcode op
Runs(op) == pc = "exec" /\ opcode = op /\ pc' = "fetch"

OthersKept(changed) ==
  /\ \A r \in (Regs \cup {R_PC, R_COND}) \ changed : reg'[r] = reg[r]
  /\ memory' = memory
  /\ past' = past

\* C12: JSR with bit 11 set leaves the post-fetch PC in R7 and adds the
\* sign-extended 11-bit offset to PC modulo 65536; no other register, COND or
\* memory word changes.
C12_JSR ==
  [][(Runs(OP_JSR) /\ instr \div 2048 % 2 = 1) =>
       /\ reg'[R_R7] = reg[R_PC]
       /\ reg'[R_PC] = (reg[R_PC] + Signed(instr, 11)) % WORD
       /\ OthersKept({R_R7, R_PC})]_vars

C12_Witness ==
  /\ Executed
  /\ instr = I_JSR(-2)
  /\ reg[R_R7] = PC_START + 2
  /\ reg[R_PC] = PC_START


\* the condition bits of a BR name the flag COND holds
Taken ==
  \/ instr \div 2048 % 2 = 1 /\ reg[R_COND] = FL_NEG
  \/ instr \div 1024 % 2 = 1 /\ reg[R_COND] = FL_ZRO
  \/ instr \div 512 % 2 = 1 /\ reg[R_COND] = FL_POS

\* C13: BR adds the sign-extended 9-bit offset to the post-fetch PC modulo
\* 65536 exactly when one of its condition bits [11:9] matches COND, and
\* leaves PC at the post-fetch value otherwise; condition bits 000 never
\* branch, 111 always branch, and nothing but PC changes.
C13_BR ==
  [][Runs(OP_BR) =>
       /\ reg'[R_PC] = IF Taken THEN (reg[R_PC] + Signed(instr, 9)) % WORD ELSE reg[R_PC]
       /\ instr \div 512 % 8 = 0 => reg'[R_PC] = reg[R_PC]
       /\ (instr \div 512 % 8 = 7 /\ instr % 512 # 0) => reg'[R_PC] # reg[R_PC]
       /\ OthersKept({R_PC})
       /\ running' = running /\ output' = output /\ input' = input]_vars

C13_Witness ==
  /\ Executed
  /\ instr = I_BR(2, 5)
  /\ reg[R_COND] = FL_ZRO
  /\ reg[R_PC] = PC_START + 7


RECURSIVE BitAnd(_, _)
BitAnd(a, b) ==
  IF a = 0 \/ b = 0 THEN 0 ELSE (a % 2) * (b % 2) + 2 * BitAnd(a \div 2, b \div 2)

\* the second operand of ADD and AND
Operand == IF instr \div 32 % 2 = 1 THEN Signed(instr, 5) ELSE reg[instr % 8]

\* C14: ADD writes DR = (SR1 + operand) mod 65536 and AND writes
\* DR = SR1 bitwise-and operand, the operand being the sign-extended imm5 when
\* bit 5 is set and SR2 otherwise; the sum wraps, the flag follows the result
\* and the loop goes on to the next fetch.
C14_AddAnd ==
  [][(pc = "exec" /\ opcode \in {OP_ADD, OP_AND} /\ pc' # "exec") =>
       LET SR1 == reg[instr \div 64 % 8]
           DR == instr \div 512 % 8
       IN  \/ pc' = "exited" /\ status' = 254
           \/ /\ pc' = "fetch"
              /\ running' = running
              /\ reg'[DR] = IF opcode = OP_ADD THEN (SR1 + Operand) % WORD
                                               ELSE BitAnd(SR1, Operand)
              /\ reg'[R_COND] = FlagOf(reg'[DR])
              /\ OthersKept({DR, R_COND})]_vars

C14_Witness ==
  /\ Executed
  /\ instr = I_ADDi(0, 1, 1)
  /\ reg[R_R0 + 1] = UINT16_MAX
  /\ reg[R_R0] = 0
  /\ reg[R_COND] = FL_ZRO


(***************************************************************************)
(* sign_extend called on its own, with every 16-bit x and every bit_count  *)
(* of 1..16.  0xFFFF << bit_count is computed in int: for bit_count = 16   *)
(* the result is out of int's range, which C leaves undefined; a build     *)
(* then either keeps the low bits of the wrapped product or traps.         *)
(***************************************************************************)
INT_MAX == 2147483647

ShiftOverflows(x, bit_count) ==
  /\ And16(Shr(x, bit_count - 1), 1) = 1
  /\ UINT16_MAX > INT_MAX \div Pow2(bit_count)

SignExtendInit ==
  /\ call \in [x : 0..UINT16_MAX, bit_count : 1..16, ret : {0}, at : {"called"}]
  /\ argv = <<>>
  /\ bigEndian = FALSE
  /\ charSigned = FALSE
  /\ layout = "pad"
  /\ startMode = "cooked"
  /\ pc = "sign_extend"
  /\ j = 0
  /\ memory = MemNorm([a \in {} |-> 0])
  /\ past = 0
  /\ reg = [r \in 0..(R_COUNT - 1) |-> 0]
  /\ running = FALSE
  /\ instr = 0
  /\ input = <<>>
  /\ output = <<>>
  /\ tty = startMode
  /\ original_tio = {}
  /\ handler = FALSE
  /\ status = -1
  /\ steps = 0
  /\ acc = {}
  /\ rd = <<>>

SignExtendReturn ==
  /\ call.at = "called"
  /\ call' = [call EXCEPT !.ret = sign_extend(call.x, call.bit_count),
                          !.at = "returned"]
  /\ UNCHANGED <<argv, bigEndian, charSigned, layout, startMode, machine, ctl, term>>

SignExtendTrap ==
  /\ call.at = "called"
  /\ ShiftOverflows(call.x, call.bit_count)
  /\ call' = [call EXCEPT !.at = "trapped"]
  /\ UNCHANGED <<argv, bigEndian, charSigned, layout, startMode, machine, ctl, term>>

SignExtendNext == SignExtendReturn \/ SignExtendTrap

SignExtendSpec == SignExtendInit /\ [][SignExtendNext]_vars

BitOf(w, k) == w \div Pow2(k) % 2

Extended(v, b, r) ==
  /\ r = Signed(v, b)
  /\ \A k \in b..15 : BitOf(r, k) = BitOf(v, b - 1)
  /\ \A k \in 0..(b - 1) : BitOf(r, k) = BitOf(v, k)

\* C15, as stated: for every 16-bit v and every b in 1..16 sign_extend(v, b)
\* returns the two's-complement value of v's low b bits.
C15_AllValues ==
  call.at \in {"returned", "trapped"} =>
    call.at = "returned" /\ Extended(call.x, call.bit_count, call.ret)

\* C15, amended: for every b in 1..16 and every v that occupies the low b bits
\* (v < 2^b), b = 16 with bit 15 set excepted, sign_extend(v, b) returns the
\* two's-complement value of v's low b bits: bits b..15 equal bit b-1 and
\* bits 0..b-1 are those of v.
C15_SignExtend ==
  (/\ call.at \in {"returned", "trapped"}
   /\ call.x < Pow2(call.bit_count)
   /\ ~(call.bit_count = 16 /\ call.x >= Pow2(15))) =>
    call.at = "returned" /\ Extended(call.x, call.bit_count, call.ret)

C15_Witness ==
  /\ call.at = "returned"
  /\ call.x = 31
  /\ call.bit_count = 5
  /\ call.ret = UINT16_MAX


\* C16: JSRR (JSR with bit 11 clear) leaves the post-fetch PC in R7 and puts
\* in PC the value the base register held before the instruction, R7 included.
C16_JSRR ==
  [][(Runs(OP_JSR) /\ instr \div 2048 % 2 = 0) =>
       /\ reg'[R_R7] = reg[R_PC]
       /\ reg'[R_PC] = reg[instr \div 64 % 8]]_vars


\* C17: no TRAP writes R7; a TRAP whose vector is outside 0x20..0x25 changes
\* no register, flag, memory word or the running flag, writes no output,
\* consumes no input, and the loop goes on to the next fetch.
C17_TrapKeepsR7 ==
  [][(pc = "exec" /\ opcode = OP_TRAP) =>
       /\ reg'[R_R7] = reg[R_R7]
       /\ (instr % 256 \notin TRAP_GETC..TRAP_HALT /\ pc' # "exec") =>
            \/ pc' = "exited" /\ status' = 254
            \/ /\ pc' = "fetch"
               /\ running /\ running'
               /\ reg' = reg
               /\ memory' = memory
               /\ past' = past
               /\ output' = output
               /\ input' = input]_vars

C17_Witness ==
  /\ Executed
  /\ instr = I_TRAP(38)
  /\ reg[R_R7] = PC_START
  /\ reg[R_PC] = PC_START + 2
  /\ running
  /\ output = <<>>


\* the words of the string at address a, the address wrapping at 65536
RECURSIVE StringAt(_, _)
StringAt(a, n) ==
  IF n = 0 \/ Cell(Machine, a) = 0 THEN <<>>
  ELSE <<Cell(Machine, a)>> \o StringAt((a + 1) % WORD, n - 1)

\* C18: for every R0 and memory content TRAP PUTS and TRAP PUTSP read only
\* words at addresses 0..65535, write the characters of the words from R0 up
\* to the first zero word, terminate, and change no register and no memory
\* word.
C18_StringTraps ==
  [][(pc = "exec" /\ opcode = OP_TRAP /\ instr % 256 \in {TRAP_PUTS, TRAP_PUTSP}
      /\ pc' # "exec") =>
       \/ pc' = "exited" /\ status' = 254
       \/ /\ pc' = "fetch"
          /\ acc' \subseteq 0..UINT16_MAX
          /\ LET ws == StringAt(reg[R_R0], WORD)
             IN  output' = output \o (IF instr % 256 = TRAP_PUTS THEN PutsChars(ws)
                                                                 ELSE PutspChars(ws))
          /\ reg' = reg
          /\ memory' = memory
          /\ past' = past]_vars


\* C19: TRAP GETC and TRAP IN each consume exactly one input character c of
\* 0..255 and leave R0 = c, high byte zero, with COND set on R0 (zero for
\* c = 0, positive otherwise), the same for both traps; no other register and
\* no memory word changes.
C19_CharInput ==
  [][(pc = "exec" /\ opcode = OP_TRAP /\ instr % 256 \in {TRAP_GETC, TRAP_IN}
      /\ pc' = "fetch") =>
       /\ input # <<>>
       /\ input' = Tail(input)
       /\ reg'[R_R0] = Head(input)
       /\ reg'[R_COND] = IF Head(input) = 0 THEN FL_ZRO ELSE FL_POS
       /\ OthersKept({R_R0, R_COND})]_vars

====
